---------------------------- MODULE Spec2Model ----------------------------
(***************************************************************************)
(* A model of scripts/generate_extraction_artifacts.py: the text section   *)
(* parser, the action canonicalizer, the cluster and control classifiers,  *)
(* the ticket-map loader and the two artifact builders.                    *)
(*                                                                         *)
(* Python str values are TLA+ strings; Len, SubSeq and \o act on them as   *)
(* len(), slicing and +.  A Python None is the string-free record NoneVal. *)
(***************************************************************************)
EXTENDS Integers, Sequences, FiniteSets, TLC

VARIABLES
    pc,          \* position of the run of the function under study
    action,      \* canonicalize_action / classify_cluster: the argument
    value,       \* canonicalize_action(action)
    again,       \* canonicalize_action(value)
    cluster,     \* classify_cluster(action)
    lines,       \* parse_form_sections: the raw lines the file handle yields
    idx,         \* parse_form_sections: index of the next raw line
    forms,       \* parse_form_sections: forms; argument of the two builders
    current,     \* parse_form_sections: current
    mode,        \* parse_form_sections: mode
    csv_rows,    \* load_action_ticket_map: the rows the DictReader yields
    row_idx,     \* load_action_ticket_map: index of the next row
    mapping,     \* load_action_ticket_map: mapping
    ticket_map,  \* build_action_matrix: ticket_map
    action_rows, \* main: action_rows = build_action_matrix(forms, ticket_map)
    form_schema  \* main: form_schema["forms"] of build_form_schema(forms)

actionVars == <<action, value, again, cluster>>
parseVars == <<lines, idx, current, mode>>
loadVars == <<csv_rows, row_idx, mapping>>
buildVars == <<ticket_map, action_rows, form_schema>>
vars == <<pc, actionVars, forms, parseVars, loadVars, buildVars>>

\* Python's None.
NoneVal == [none |-> TRUE]

\* The values of the variables a specification does not use.
ActionIdle == action = "" /\ value = "" /\ again = "" /\ cluster = ""
ParseIdle == lines = <<>> /\ idx = 1 /\ current = NoneVal /\ mode = "None"
LoadIdle == csv_rows = <<>> /\ row_idx = 1 /\ mapping = <<>>
BuildIdle == ticket_map = <<>> /\ action_rows = <<>> /\ form_schema = <<>>

-----------------------------------------------------------------------------
(* Bounds of the model. *)

\* Number of fragments concatenated into a raw action string.
MaxFrags == 4

-----------------------------------------------------------------------------
(* Python str primitives. *)

\* Characters str.strip() and the regex class \s remove or match.
Whitespace == {" ", "\t", "\n", "\r"}

\* str.startswith(prefix)
StartsWith(s, prefix) ==
    Len(prefix) <= Len(s) /\ SubSeq(s, 1, Len(prefix)) = prefix

\* str.startswith(tuple of prefixes)
StartsWithAny(s, prefixes) == \E p \in prefixes : StartsWith(s, p)

\* str.endswith(suffix)
EndsWith(s, suffix) ==
    Len(suffix) <= Len(s) /\ SubSeq(s, Len(s) - Len(suffix) + 1, Len(s)) = suffix

RECURSIVE LStrip(_)
LStrip(s) ==
    IF Len(s) > 0 /\ SubSeq(s, 1, 1) \in Whitespace
    THEN LStrip(SubSeq(s, 2, Len(s)))
    ELSE s

RECURSIVE RStrip(_)
RStrip(s) ==
    IF Len(s) > 0 /\ SubSeq(s, Len(s), Len(s)) \in Whitespace
    THEN RStrip(SubSeq(s, 1, Len(s) - 1))
    ELSE s

\* str.strip()
Strip(s) == RStrip(LStrip(s))

\* str.replace(old, new): non-overlapping occurrences, scanned left to right.
RECURSIVE Replace(_, _, _)
Replace(s, old, new) ==
    IF Len(s) < Len(old) THEN s
    ELSE IF StartsWith(s, old)
         THEN new \o Replace(SubSeq(s, Len(old) + 1, Len(s)), old, new)
         ELSE SubSeq(s, 1, 1) \o Replace(SubSeq(s, 2, Len(s)), old, new)

-----------------------------------------------------------------------------
(* canonicalize_action *)

ExecuteSuffix == "Execute"

\* A variant that trims after the suffix is cut instead of before.
canonicalize_action_strip_last(a) ==
    LET cut == IF EndsWith(a, ExecuteSuffix)
               THEN SubSeq(a, 1, Len(a) - Len(ExecuteSuffix))
               ELSE a
    IN  Replace(Strip(cut), "LinePallet", "LinePalette")

\* A variant that cuts every trailing suffix, not only the last one.
RECURSIVE CutAll(_)
CutAll(s) ==
    IF EndsWith(s, ExecuteSuffix)
    THEN CutAll(SubSeq(s, 1, Len(s) - Len(ExecuteSuffix)))
    ELSE s

canonicalize_action_cut_all(a) ==
    Replace(CutAll(Strip(a)), "LinePallet", "LinePalette")

canonicalize_action(a) ==
    LET stripped == Strip(a)
        cut == IF EndsWith(stripped, ExecuteSuffix)
               THEN SubSeq(stripped, 1, Len(stripped) - Len(ExecuteSuffix))
               ELSE stripped
    IN  Replace(cut, "LinePallet", "LinePalette")

-----------------------------------------------------------------------------
(* classify_cluster *)

TransformsPrefixes ==
    {"actAlign", "actRotate", "actScale", "actSpecify", "actSetAs", "actMoveOrCopy"}
LineTypePalettePrefixes == {"actLinePalette", "actLinePallet"}
GeometryEditPrefixes ==
    {"actCenterLine", "actConvert", "actReversePath", "actSplitIntoN",
     "actDrawBoundary", "actDrawGoldenSpiral", "actDeleteDuplicates",
     "actEditShapeSize", "actEditLineAngle", "actLineSymmetry", "actDesignHelper_"}
SelectionOrderingPrefixes ==
    {"actSelect", "actDeselect", "actDeleteSelected", "actCreateGroup",
     "actUngroup", "actOrder"}
ProjectLifecyclePrefixes ==
    {"actNewProject", "actLoadProject", "actSaveProject", "actClose",
     "actOpenDemoProject", "actOpenOptions", "actClearAll"}
ViewportDisplayPrefixes ==
    {"actShowHideGrid", "actShowHideScale", "actShowHideDimensionLines",
     "actShowHidePrintAreas", "actSetGridBackground", "actResetView"}
HelpLinksPrefixes == {"actShow", "actView", "actVisit"}
SecretBonusPrefixes == {"actSecret"}
LayerAdvancedPrefixes == {"actLayer", "actIgnoreLayer"}

\* A variant that tests the HelpLinks rule before the ViewportDisplay rule.
classify_cluster_help_first(a) ==
    IF StartsWithAny(a, TransformsPrefixes) THEN "Transforms"
    ELSE IF StartsWithAny(a, LineTypePalettePrefixes) THEN "LineTypePalette"
    ELSE IF StartsWithAny(a, GeometryEditPrefixes) THEN "GeometryEdit"
    ELSE IF StartsWithAny(a, SelectionOrderingPrefixes) THEN "SelectionOrdering"
    ELSE IF StartsWithAny(a, ProjectLifecyclePrefixes) THEN "ProjectLifecycle"
    ELSE IF StartsWithAny(a, HelpLinksPrefixes) THEN "HelpLinks"
    ELSE IF StartsWithAny(a, ViewportDisplayPrefixes) THEN "ViewportDisplay"
    ELSE IF StartsWithAny(a, SecretBonusPrefixes) THEN "SecretBonus"
    ELSE IF StartsWithAny(a, LayerAdvancedPrefixes) THEN "LayerAdvanced"
    ELSE "Other"

classify_cluster(a) ==
    IF StartsWithAny(a, TransformsPrefixes) THEN "Transforms"
    ELSE IF StartsWith(a, "actLinePalette") \/ StartsWith(a, "actLinePallet")
         THEN "LineTypePalette"
    ELSE IF StartsWithAny(a, GeometryEditPrefixes) THEN "GeometryEdit"
    ELSE IF StartsWithAny(a, SelectionOrderingPrefixes) THEN "SelectionOrdering"
    ELSE IF StartsWithAny(a, ProjectLifecyclePrefixes) THEN "ProjectLifecycle"
    ELSE IF StartsWithAny(a, ViewportDisplayPrefixes) THEN "ViewportDisplay"
    ELSE IF StartsWithAny(a, HelpLinksPrefixes) THEN "HelpLinks"
    ELSE IF StartsWithAny(a, SecretBonusPrefixes) THEN "SecretBonus"
    ELSE IF StartsWithAny(a, LayerAdvancedPrefixes) THEN "LayerAdvanced"
    ELSE "Other"

-----------------------------------------------------------------------------
(* Raw action strings: concatenations of at most MaxFrags fragments. *)

Fragments == {" ", "act", "Execute", "LinePallet", "Align", "e"}

RECURSIVE Concats(_)
Concats(n) ==
    IF n = 0 THEN {""}
    ELSE LET shorter == Concats(n - 1)
         IN  shorter \cup {s \o f : s \in shorter, f \in Fragments}

RawActions == Concats(MaxFrags)

\* The specification of canonicalize_action applied once and then again.
CanonInit ==
    /\ pc = "start"
    /\ action \in RawActions
    /\ value = ""
    /\ again = ""
    /\ cluster = ""
    /\ forms = <<>>
    /\ ParseIdle /\ LoadIdle /\ BuildIdle

Canonicalize ==
    /\ pc = "start"
    /\ value' = canonicalize_action(action)
    /\ pc' = "canonical"
    /\ UNCHANGED <<action, again, cluster, forms, parseVars, loadVars, buildVars>>

CanonicalizeAgain ==
    /\ pc = "canonical"
    /\ again' = canonicalize_action(value)
    /\ pc' = "done"
    /\ UNCHANGED <<action, value, cluster, forms, parseVars, loadVars, buildVars>>

CanonNext == Canonicalize \/ CanonicalizeAgain

SpecCanon == CanonInit /\ [][CanonNext]_vars


\* C3 as stated: canonicalization is idempotent for every raw action string.
C3_Idempotent == pc = "done" => again = value

\* A raw action whose trimmed form, once one trailing "Execute" is cut, ends
\* neither with another "Execute" nor with whitespace.
SingleSuffix(s) ==
    LET t == Strip(s)
        r == IF EndsWith(t, "Execute") THEN SubSeq(t, 1, Len(t) - 7) ELSE t
    IN  /\ ~EndsWith(r, "Execute")
        /\ (Len(r) = 0 \/ SubSeq(r, Len(r), Len(r)) \notin Whitespace)

\* C3 amended: canonicalization is idempotent for every raw action string
\* whose trimmed form, after the cut of one trailing "Execute", ends neither
\* with "Execute" nor with whitespace.
C3_IdempotentSingleSuffix ==
    (pc = "done" /\ SingleSuffix(action)) => again = value

\* C3 witness: a suffixed, misspelt action was canonicalized twice.
C3_Witness ==
    /\ pc = "done"
    /\ SingleSuffix(action)
    /\ EndsWith(Strip(action), "Execute")
    /\ value # Strip(action)
    /\ Len(value) > 0
    /\ again = value

\* C4 as stated: for a raw action ending with "Execute" the result is the
\* input without that suffix, the remainder left as it was.
C4_RemainderUntouched ==
    (pc # "start" /\ EndsWith(action, "Execute"))
        => value = SubSeq(action, 1, Len(action) - 7)

\* C4 amended: for a raw action ending with "Execute" exactly that one
\* trailing "Execute" is cut (an earlier one stays), and the remainder is kept
\* but for its leading whitespace, which is trimmed, and every "LinePallet"
\* in it, which becomes "LinePalette".
C4_OneSuffixCut ==
    (pc # "start" /\ EndsWith(action, "Execute"))
        => value = Replace(LStrip(SubSeq(action, 1, Len(action) - 7)),
                           "LinePallet", "LinePalette")

\* C4 witness: an action ending with two suffixes lost only the last one.
C4_Witness ==
    /\ pc # "start"
    /\ EndsWith(action, "ExecuteExecute")
    /\ EndsWith(value, "Execute")
    /\ Len(value) = Len(action) - 7

-----------------------------------------------------------------------------
(* classify_cluster applied to action names around every rule's prefixes. *)

AllPrefixes ==
    UNION {TransformsPrefixes, LineTypePalettePrefixes, GeometryEditPrefixes,
           SelectionOrderingPrefixes, ProjectLifecyclePrefixes,
           ViewportDisplayPrefixes, HelpLinksPrefixes, SecretBonusPrefixes,
           LayerAdvancedPrefixes}

\* Each prefix, each prefix extended, each prefix one character short, and
\* names no rule matches.
ClusterInputs ==
    {p \o t : p \in AllPrefixes, t \in {"", "X", "Execute"}}
        \cup {SubSeq(p, 1, Len(p) - 1) : p \in AllPrefixes}
        \cup {"", "act", "actZoom", "btnShow", " actAlign", "ActAlign"}

ClusterInit ==
    /\ pc = "start"
    /\ action \in ClusterInputs
    /\ value = ""
    /\ again = ""
    /\ cluster = ""
    /\ forms = <<>>
    /\ ParseIdle /\ LoadIdle /\ BuildIdle

Classify ==
    /\ pc = "start"
    /\ cluster' = classify_cluster(action)
    /\ pc' = "done"
    /\ UNCHANGED <<action, value, again, forms, parseVars, loadVars, buildVars>>

ClusterNext == Classify

SpecCluster == ClusterInit /\ [][ClusterNext]_vars

\* The rule order C6 states, each rule with the prefixes of its category.
RuleOrder ==
    << [category |-> "Transforms", prefixes |-> TransformsPrefixes],
       [category |-> "LineTypePalette", prefixes |-> LineTypePalettePrefixes],
       [category |-> "GeometryEdit", prefixes |-> GeometryEditPrefixes],
       [category |-> "SelectionOrdering", prefixes |-> SelectionOrderingPrefixes],
       [category |-> "ProjectLifecycle", prefixes |-> ProjectLifecyclePrefixes],
       [category |-> "ViewportDisplay", prefixes |-> ViewportDisplayPrefixes],
       [category |-> "HelpLinks", prefixes |-> HelpLinksPrefixes],
       [category |-> "SecretBonus", prefixes |-> SecretBonusPrefixes],
       [category |-> "LayerAdvanced", prefixes |-> LayerAdvancedPrefixes] >>

Categories == {RuleOrder[i].category : i \in 1..Len(RuleOrder)} \cup {"Other"}

MatchingRules(a) ==
    {i \in 1..Len(RuleOrder) : StartsWithAny(a, RuleOrder[i].prefixes)}

\* C6: classify_cluster returns one of the ten categories: that of the
\* earliest rule, in the stated order, with a prefix the name starts with,
\* and "Other" when no rule has one.
C6_FirstMatchWins ==
    pc = "done" =>
        /\ cluster \in Categories
        /\ Cardinality(Categories) = 10
        /\ LET m == MatchingRules(action)
           IN  IF m = {} THEN cluster = "Other"
               ELSE \E i \in m : /\ \A j \in m : i <= j
                                  /\ cluster = RuleOrder[i].category

\* C6 witness: a name two rules match was given the earlier rule's category.
C6_Witness ==
    /\ pc = "done"
    /\ StartsWith(action, "actShowHideGrid")
    /\ Cardinality(MatchingRules(action)) = 2
    /\ cluster = "ViewportDisplay"

-----------------------------------------------------------------------------
(* parse_form_sections *)

\* Number of raw lines of the form-details file.
MaxLines == 4

\* s[i], or "" past either end.
CharAt(s, i) == IF 1 <= i /\ i <= Len(s) THEN SubSeq(s, i, i) ELSE ""

\* Length of the run of whitespace of s that starts at position p.
RECURSIVE WsRun(_, _)
WsRun(s, p) == IF CharAt(s, p) \in Whitespace THEN 1 + WsRun(s, p + 1) ELSE 0

\* raw_line.rstrip("\n")
RECURSIVE RStripNewline(_)
RStripNewline(s) ==
    IF EndsWith(s, "\n") THEN RStripNewline(SubSeq(s, 1, Len(s) - 1)) ELSE s

\* The regex piece \s+\| at position p: the position after the "|", or 0.
\* The greedy \s+ must take the whole run, "|" being no whitespace.
SepAt(s, p) ==
    LET r == WsRun(s, p)
    IN  IF r >= 1 /\ CharAt(s, p + r) = "|" THEN p + r + 1 ELSE 0

\* The regex piece (.+?) over s[a..b]: at least one character, none a newline.
DotPlus(s, a, b) ==
    a <= b /\ b <= Len(s) /\ \A i \in a..b : SubSeq(s, i, i) # "\n"

\* The regex piece \s+(.+?)\s+\| at position p: the pairs <<w, n>> of a
\* whitespace run of w characters and a group of n characters that match.
FieldAt(s, p) ==
    {t \in (1..WsRun(s, p)) \X (1..Len(s)) :
        /\ DotPlus(s, p + t[1], p + t[1] + t[2] - 1)
        /\ SepAt(s, p + t[1] + t[2]) # 0}

\* The backtracking order: the greedy \s+ longest first, the lazy group
\* shortest first.
Preferred(ts) ==
    CHOOSE t \in ts : \A u \in ts :
        t[1] > u[1] \/ (t[1] = u[1] /\ t[2] <= u[2])

\* HEADER_PATTERN.match(line): NoneVal, or the two groups of the first match
\* in backtracking order.
HEADER_PATTERN_match(line) ==
    LET after(t) == SepAt(line, 4 + t[1] + t[2])
        first == {t \in FieldAt(line, 4) : FieldAt(line, after(t)) # {}}
    IN  IF ~StartsWith(line, "===") \/ first = {} THEN NoneVal
        ELSE LET t == Preferred(first)
                 u == Preferred(FieldAt(line, after(t)))
             IN  [group1 |-> SubSeq(line, 4 + t[1], 4 + t[1] + t[2] - 1),
                  group2 |-> SubSeq(line, after(t) + u[1],
                                    after(t) + u[1] + u[2] - 1)]

\* The raw lines a file may hold: two headers (the second with runs of
\* blanks and tabs around its fields), the two markers, an entry, a blank
\* line, an indented marker, and an entry that ends the file with no newline.
RawLineSet ==
    { "=== a.rsrc | TfrmLeat | 2\n",
      "===\t b.rsrc  | \tTfrmAbout \t|\n",
      "Actions (2):\n",
      "Controls (1):\n",
      " actSave \n",
      " \t\n",
      " Actions (0)\n",
      "btnOk" }

RECURSIVE SeqsUpTo(_, _)
SeqsUpTo(S, n) ==
    IF n = 0 THEN {<<>>}
    ELSE LET shorter == SeqsUpTo(S, n - 1)
         IN  shorter \cup {Append(q, x) : q \in {r \in shorter : Len(r) = n - 1}, x \in S}

\* Iterating a text file yields lines that end with "\n", but for a last
\* line that may lack it.
FileLines ==
    {ls \in SeqsUpTo(RawLineSet, MaxLines) :
        \A i \in 1..(Len(ls) - 1) : EndsWith(ls[i], "\n")}

\* HEADER_PATTERN.match on each line of the file, computed once.
HeaderOf == [l \in {RStripNewline(r) : r \in RawLineSet} |-> HEADER_PATTERN_match(l)]

line == RStripNewline(lines[idx])

ParseInit ==
    /\ pc = "parse"
    /\ lines \in FileLines
    /\ idx = 1
    /\ forms = <<>>
    /\ current = NoneVal
    /\ mode = "None"
    /\ ActionIdle /\ LoadIdle /\ BuildIdle

InLoop == pc = "parse" /\ idx <= Len(lines)

\* A variant that keeps the parsing mode across a header.
ParseHeaderKeepMode ==
    /\ InLoop
    /\ HeaderOf[line] # NoneVal
    /\ forms' = IF current # NoneVal THEN Append(forms, current) ELSE forms
    /\ current' = [resource_file |-> Strip(HeaderOf[line].group1),
                   form_name |-> Strip(HeaderOf[line].group2),
                   actions |-> <<>>,
                   controls |-> <<>>]
    /\ idx' = idx + 1
    /\ UNCHANGED <<pc, lines, mode, actionVars, loadVars, buildVars>>

\* if header: ... continue
ParseHeader ==
    /\ InLoop
    /\ HeaderOf[line] # NoneVal
    /\ forms' = IF current # NoneVal THEN Append(forms, current) ELSE forms
    /\ current' = [resource_file |-> Strip(HeaderOf[line].group1),
                   form_name |-> Strip(HeaderOf[line].group2),
                   actions |-> <<>>,
                   controls |-> <<>>]
    /\ mode' = "None"
    /\ idx' = idx + 1
    /\ UNCHANGED <<pc, lines, actionVars, loadVars, buildVars>>

\* if current is None: continue
SkipOutsideSection ==
    /\ InLoop
    /\ HeaderOf[line] = NoneVal
    /\ current = NoneVal
    /\ idx' = idx + 1
    /\ UNCHANGED <<pc, lines, forms, current, mode, actionVars, loadVars, buildVars>>

\* if line.startswith("Actions ("): mode = "actions"; continue
MarkActions ==
    /\ InLoop
    /\ HeaderOf[line] = NoneVal
    /\ current # NoneVal
    /\ StartsWith(line, "Actions (")
    /\ mode' = "actions"
    /\ idx' = idx + 1
    /\ UNCHANGED <<pc, lines, forms, current, actionVars, loadVars, buildVars>>

\* if line.startswith("Controls ("): mode = "controls"; continue
MarkControls ==
    /\ InLoop
    /\ HeaderOf[line] = NoneVal
    /\ current # NoneVal
    /\ ~StartsWith(line, "Actions (")
    /\ StartsWith(line, "Controls (")
    /\ mode' = "controls"
    /\ idx' = idx + 1
    /\ UNCHANGED <<pc, lines, forms, current, actionVars, loadVars, buildVars>>

\* The line reached the tests of lines 130 to 135.
IsEntryCandidate ==
    /\ InLoop
    /\ HeaderOf[line] = NoneVal
    /\ current # NoneVal
    /\ ~StartsWith(line, "Actions (")
    /\ ~StartsWith(line, "Controls (")

\* if not line.strip(): continue
SkipBlank ==
    /\ IsEntryCandidate
    /\ Strip(line) = ""
    /\ idx' = idx + 1
    /\ UNCHANGED <<pc, lines, forms, current, mode, actionVars, loadVars, buildVars>>

\* if mode == "actions": current.actions.append(line.strip())
AppendAction ==
    /\ IsEntryCandidate
    /\ Strip(line) # ""
    /\ mode = "actions"
    /\ current' = [current EXCEPT !.actions = Append(@, Strip(line))]
    /\ idx' = idx + 1
    /\ UNCHANGED <<pc, lines, forms, mode, actionVars, loadVars, buildVars>>

\* elif mode == "controls": current.controls.append(line.strip())
AppendControl ==
    /\ IsEntryCandidate
    /\ Strip(line) # ""
    /\ mode = "controls"
    /\ current' = [current EXCEPT !.controls = Append(@, Strip(line))]
    /\ idx' = idx + 1
    /\ UNCHANGED <<pc, lines, forms, mode, actionVars, loadVars, buildVars>>

\* A non-blank line while mode is None falls through both tests.
SkipNoMode ==
    /\ IsEntryCandidate
    /\ Strip(line) # ""
    /\ mode = "None"
    /\ idx' = idx + 1
    /\ UNCHANGED <<pc, lines, forms, current, mode, actionVars, loadVars, buildVars>>

\* A variant that returns without the section still in progress.
ParseReturnDropLast ==
    /\ pc = "parse"
    /\ idx > Len(lines)
    /\ pc' = "parsed"
    /\ UNCHANGED <<lines, idx, forms, current, mode, actionVars, loadVars, buildVars>>

\* if current is not None: forms.append(current); return forms
ParseReturn ==
    /\ pc = "parse"
    /\ idx > Len(lines)
    /\ forms' = IF current # NoneVal THEN Append(forms, current) ELSE forms
    /\ pc' = "parsed"
    /\ UNCHANGED <<lines, idx, current, mode, actionVars, loadVars, buildVars>>

ParseNext ==
    \/ ParseHeader
    \/ SkipOutsideSection
    \/ MarkActions
    \/ MarkControls
    \/ SkipBlank
    \/ AppendAction
    \/ AppendControl
    \/ SkipNoMode
    \/ ParseReturn

SpecParse == ParseInit /\ [][ParseNext]_vars

\* The i-th line of ls without its newline.
Body(ls, i) == RStripNewline(ls[i])

\* The indexes below n of the lines of ls that match the header pattern.
HeadersBelow(ls, n) == {i \in 1..(n - 1) : HeaderOf[Body(ls, i)] # NoneVal}

\* The k-th header of ls, in file order.
NthHeader(ls, k) ==
    LET H == HeadersBelow(ls, Len(ls) + 1)
    IN  CHOOSE h \in H : Cardinality({g \in H : g <= h}) = k

\* The n-th pipe-delimited field of a header line, after its "===", trimmed.
PipeField(l, n) ==
    LET pipes == {i \in 1..Len(l) : SubSeq(l, i, i) = "|"}
        nth(k) == CHOOSE i \in pipes : Cardinality({j \in pipes : j <= i}) = k
        from == IF n = 1 THEN 4 ELSE nth(n - 1) + 1
    IN  Strip(SubSeq(l, from, nth(n) - 1))

\* The section opened by the k-th header carries that header's two fields.
OpenedBy(section, ls, k) ==
    /\ section.resource_file = PipeField(Body(ls, NthHeader(ls, k)), 1)
    /\ section.form_name = PipeField(Body(ls, NthHeader(ls, k)), 2)

\* C8: the result holds one FormSection per header line, in file order, with
\* the header's trimmed first two fields.  While the lines are read, forms
\* holds the sections of all headers read but the last, whose section is
\* current (None before the first header); the return appends it.
C8_SectionPerHeader ==
    LET seen == Cardinality(HeadersBelow(lines, idx))
    IN  /\ pc = "parse" =>
            /\ (current = NoneVal) <=> (seen = 0)
            /\ Len(forms) = IF seen = 0 THEN 0 ELSE seen - 1
            /\ current # NoneVal => OpenedBy(current, lines, seen)
        /\ pc = "parsed" => Len(forms) = seen
        /\ pc \in {"parse", "parsed"} =>
            \A k \in 1..Len(forms) : OpenedBy(forms[k], lines, k)

\* C8 witness: two headers, read in an order that is not the sorted one,
\* gave two sections in that order, the second appended by the return.
C8_Witness ==
    /\ pc = "parsed"
    /\ Len(lines) > 2
    /\ Len(forms) = 2
    /\ forms[1].form_name = "TfrmLeat"
    /\ forms[1].resource_file = "a.rsrc"
    /\ forms[2].form_name = "TfrmAbout"
    /\ forms[2].resource_file = "b.rsrc"

IsMarker(l) == StartsWith(l, "Actions (") \/ StartsWith(l, "Controls (")

\* The marker in force at line i: that of the last marker line between the
\* last header before i and i, or "" when there is none.
MarkerInForce(ls, i) ==
    LET H == HeadersBelow(ls, i)
        h == CHOOSE x \in H : \A y \in H : y <= x
        M == {j \in (h + 1)..(i - 1) : IsMarker(Body(ls, j))}
        m == CHOOSE x \in M : \A y \in M : y <= x
    IN  IF H = {} \/ M = {} THEN ""
        ELSE IF StartsWith(Body(ls, m), "Actions (") THEN "Actions ("
        ELSE "Controls ("

\* Line i is an entry of the k-th section under the given marker.
IsEntry(ls, i, k, marker) ==
    /\ HeaderOf[Body(ls, i)] = NoneVal
    /\ ~IsMarker(Body(ls, i))
    /\ Strip(Body(ls, i)) # ""
    /\ Cardinality(HeadersBelow(ls, i)) = k
    /\ MarkerInForce(ls, i) = marker

\* The trimmed entries of the k-th section under a marker, in file order,
\* among the first n lines.
RECURSIVE Entries(_, _, _, _)
Entries(ls, n, k, marker) ==
    IF n = 0 THEN <<>>
    ELSE IF IsEntry(ls, n, k, marker)
         THEN Append(Entries(ls, n - 1, k, marker), Strip(Body(ls, n)))
         ELSE Entries(ls, n - 1, k, marker)

\* C10: the actions and controls lists of each section hold, trimmed and in
\* file order, exactly the non-blank, non-header, non-marker lines that follow
\* the section's header, before the next one, with the last marker since that
\* header being "Actions (", respectively "Controls (": a line before the
\* first header, or between a header and its first marker, is in no list.
C10_EntriesFollowMode ==
    pc = "parsed" =>
        \A k \in 1..Len(forms) :
            /\ forms[k].actions = Entries(lines, Len(lines), k, "Actions (")
            /\ forms[k].controls = Entries(lines, Len(lines), k, "Controls (")

\* C10 witness: an entry line before the first header went to no list, and
\* the same line after a header and an "Actions (" marker was appended,
\* trimmed, to that section's actions.
C10_Witness ==
    /\ pc = "parsed"
    /\ Len(lines) = 4
    /\ lines[1] = " actSave \n"
    /\ HeaderOf[Body(lines, 2)] # NoneVal
    /\ lines[3] = "Actions (2):\n"
    /\ lines[4] = " actSave \n"
    /\ Len(forms) = 1
    /\ forms[1].actions = <<"actSave">>
    /\ forms[1].controls = <<>>

-----------------------------------------------------------------------------
(* load_action_ticket_map *)

\* Number of rows of the ticket CSV.
MaxRows == 3

\* dict.get(key, default).  A row lacks a column that the header lacks.
Get(row, key, default) == IF key \in DOMAIN row THEN row[key] ELSE default

\* (row.get("action") or "").strip(): None and "" both give "".
RowAction(row) == Strip(Get(row, "action", ""))

\* The ticket columns of a row.
TicketColumns ==
    { [ticket_id |-> "T-1", feature_group |-> "Transforms", phase |-> "1"],
      [ticket_id |-> "T-2", feature_group |-> "LineTypes", phase |-> "2"] }

WithAction(a, t) ==
    [action |-> a, ticket_id |-> t.ticket_id,
     feature_group |-> t.feature_group, phase |-> t.phase]

\* The rows the DictReader may yield: a key, the same key with blanks around
\* it, another key, an empty and a blank action, and no action at all.
RowSet ==
    {WithAction(a, t) : a \in {"actAlign", " actAlign\t", "actShow", "", " \t"},
                        t \in TicketColumns}
        \cup TicketColumns

LoadInit ==
    /\ pc = "load"
    /\ csv_rows \in SeqsUpTo(RowSet, MaxRows)
    /\ row_idx = 1
    /\ mapping = <<>>
    /\ forms = <<>>
    /\ ActionIdle /\ ParseIdle /\ BuildIdle

\* dict[key] = item
Put(dict, key, item) ==
    [k \in DOMAIN dict \cup {key} |-> IF k = key THEN item ELSE dict[k]]

\* A variant that keeps the first row of a key.
StoreRowKeepFirst ==
    /\ pc = "load"
    /\ row_idx <= Len(csv_rows)
    /\ RowAction(csv_rows[row_idx]) # ""
    /\ mapping' = IF RowAction(csv_rows[row_idx]) \in DOMAIN mapping THEN mapping
                  ELSE Put(mapping, RowAction(csv_rows[row_idx]), csv_rows[row_idx])
    /\ row_idx' = row_idx + 1
    /\ UNCHANGED <<pc, csv_rows, forms, actionVars, parseVars, buildVars>>

\* if action: mapping[action] = row
StoreRow ==
    /\ pc = "load"
    /\ row_idx <= Len(csv_rows)
    /\ RowAction(csv_rows[row_idx]) # ""
    /\ mapping' = Put(mapping, RowAction(csv_rows[row_idx]), csv_rows[row_idx])
    /\ row_idx' = row_idx + 1
    /\ UNCHANGED <<pc, csv_rows, forms, actionVars, parseVars, buildVars>>

\* A row whose action is blank or absent is passed over.
SkipRow ==
    /\ pc = "load"
    /\ row_idx <= Len(csv_rows)
    /\ RowAction(csv_rows[row_idx]) = ""
    /\ row_idx' = row_idx + 1
    /\ UNCHANGED <<pc, csv_rows, mapping, forms, actionVars, parseVars, buildVars>>

\* return mapping
LoadReturn ==
    /\ pc = "load"
    /\ row_idx > Len(csv_rows)
    /\ pc' = "loaded"
    /\ UNCHANGED <<csv_rows, row_idx, mapping, forms, actionVars, parseVars, buildVars>>

LoadNext == StoreRow \/ SkipRow \/ LoadReturn

SpecLoad == LoadInit /\ [][LoadNext]_vars

\* The trimmed action of the i-th row, "" when the row has none.
TrimmedKey(i) ==
    IF "action" \in DOMAIN csv_rows[i] THEN Strip(csv_rows[i].action) ELSE ""

\* C9: the keys of the mapping are the non-empty trimmed actions of the rows
\* read so far (all of them at the return), and each key maps to the last of
\* those rows with that trimmed action.
C9_LastRowWins ==
    pc \in {"load", "loaded"} =>
        LET read == 1..(row_idx - 1)
        IN  /\ pc = "loaded" => read = DOMAIN csv_rows
            /\ DOMAIN mapping = {TrimmedKey(i) : i \in read} \ {""}
            /\ \A k \in DOMAIN mapping :
                 \E i \in read :
                    /\ TrimmedKey(i) = k
                    /\ \A j \in read : TrimmedKey(j) = k => j <= i
                    /\ mapping[k] = csv_rows[i]

\* C9 witness: of three rows, the first and the third had the same trimmed
\* key and different tickets, the second had a blank action; the mapping has
\* that one key, with the third row.
C9_Witness ==
    /\ pc = "loaded"
    /\ Len(csv_rows) = 3
    /\ csv_rows[1].ticket_id = "T-1"
    /\ csv_rows[3].ticket_id = "T-2"
    /\ TrimmedKey(1) = "actAlign"
    /\ TrimmedKey(2) = ""
    /\ TrimmedKey(3) = "actAlign"
    /\ csv_rows[3].action # "actAlign"
    /\ DOMAIN mapping = {"actAlign"}
    /\ mapping["actAlign"] = csv_rows[3]

-----------------------------------------------------------------------------
(* Python str ordering, sorted() and str.join *)

\* The ASCII characters of code points 32 to 95 and 97 to 126, in order.
AsciiUpTo95 ==
    " !\"#$%&'()*+,-./0123456789:;<=>?@ABCDEFGHIJKLMNOPQRSTUVWXYZ[\\]^_"
AsciiFrom97 == "abcdefghijklmnopqrstuvwxyz{|}~"

\* The position of the character c in the string s.
IndexIn(s, c) == CHOOSE i \in 1..Len(s) : SubSeq(s, i, i) = c

\* ord(c)
Ord ==
    [c \in {SubSeq(AsciiUpTo95, i, i) : i \in 1..Len(AsciiUpTo95)}
             \cup {SubSeq(AsciiFrom97, i, i) : i \in 1..Len(AsciiFrom97)}
             \cup {"\t", "\n", "\r"} |->
        CASE c = "\t" -> 9
          [] c = "\n" -> 10
          [] c = "\r" -> 13
          [] c \in {SubSeq(AsciiFrom97, i, i) : i \in 1..Len(AsciiFrom97)} ->
                96 + IndexIn(AsciiFrom97, c)
          [] OTHER -> 31 + IndexIn(AsciiUpTo95, c)]

\* a < b on str: by code point, a proper prefix being smaller.
RECURSIVE StrLess(_, _)
StrLess(a, b) ==
    IF Len(b) = 0 THEN FALSE
    ELSE IF Len(a) = 0 THEN TRUE
    ELSE IF SubSeq(a, 1, 1) = SubSeq(b, 1, 1)
         THEN StrLess(SubSeq(a, 2, Len(a)), SubSeq(b, 2, Len(b)))
         ELSE Ord[SubSeq(a, 1, 1)] < Ord[SubSeq(b, 1, 1)]

\* sorted(S) for a set (or the keys of a dict) of str.
RECURSIVE Sorted(_)
Sorted(S) ==
    IF S = {} THEN <<>>
    ELSE LET least == CHOOSE x \in S : \A y \in S : x = y \/ StrLess(x, y)
         IN  <<least>> \o Sorted(S \ {least})

\* sep.join(parts)
RECURSIVE Join(_, _)
Join(sep, parts) ==
    IF Len(parts) = 0 THEN ""
    ELSE IF Len(parts) = 1 THEN parts[1]
    ELSE parts[1] \o sep \o Join(sep, Tail(parts))

-----------------------------------------------------------------------------
(* build_action_matrix *)

source_forms == {"TfrmLeat", "TfrmLeat_Macintosh"}

\* A variant that records the canonical name as the alias.
AddActionCanonicalAlias(by_action, form_name, raw_action) ==
    LET canonical == canonicalize_action(raw_action)
        item == IF canonical \in DOMAIN by_action THEN by_action[canonical]
                ELSE [aliases |-> {}, forms |-> {}]
    IN  IF ~StartsWith(canonical, "act") THEN by_action
        ELSE Put(by_action, canonical,
                 [aliases |-> item.aliases \cup {canonical},
                  forms |-> item.forms \cup {form_name}])

\* A variant without the test of the "act" prefix.
AddActionAnyPrefix(by_action, form_name, raw_action) ==
    LET canonical == canonicalize_action(raw_action)
        item == IF canonical \in DOMAIN by_action THEN by_action[canonical]
                ELSE [aliases |-> {}, forms |-> {}]
    IN  Put(by_action, canonical,
            [aliases |-> item.aliases \cup {raw_action},
             forms |-> item.forms \cup {form_name}])

\* The body of the inner loop, lines 162 to 167.
AddAction(by_action, form_name, raw_action) ==
    LET canonical == canonicalize_action(raw_action)
        item == IF canonical \in DOMAIN by_action THEN by_action[canonical]
                ELSE [aliases |-> {}, forms |-> {}]
    IN  IF ~StartsWith(canonical, "act") THEN by_action
        ELSE Put(by_action, canonical,
                 [aliases |-> item.aliases \cup {raw_action},
                  forms |-> item.forms \cup {form_name}])

\* for raw_action in form.actions, over the first n actions.
RECURSIVE AddActions(_, _, _)
AddActions(by_action, form, n) ==
    IF n = 0 THEN by_action
    ELSE AddAction(AddActions(by_action, form, n - 1),
                   form.form_name, form.actions[n])

\* for form in forms, over the first n forms.
RECURSIVE Accumulate(_, _)
Accumulate(fs, n) ==
    IF n = 0 THEN <<>>
    ELSE IF fs[n].form_name \notin source_forms THEN Accumulate(fs, n - 1)
    ELSE AddActions(Accumulate(fs, n - 1), fs[n], Len(fs[n].actions))

\* for alias in aliases: matched = ticket_map.get(alias); break on a hit.
\* The index of the first alias from i on that is a key, or 0.
RECURSIVE FirstAliasHit(_, _, _)
FirstAliasHit(aliases, tm, i) ==
    IF i > Len(aliases) THEN 0
    ELSE IF aliases[i] \in DOMAIN tm THEN i
    ELSE FirstAliasHit(aliases, tm, i + 1)

\* A variant whose alias loop has no break: the last alias that hits wins.
RECURSIVE LastAliasHit(_, _, _)
LastAliasHit(aliases, tm, i) ==
    IF i > Len(aliases) THEN 0
    ELSE LET later == LastAliasHit(aliases, tm, i + 1)
         IN  IF later # 0 THEN later
             ELSE IF aliases[i] \in DOMAIN tm THEN i ELSE 0

MatchedKeyNoBreak(canonical, aliases, tm) ==
    IF canonical \in DOMAIN tm THEN <<canonical>>
    ELSE IF LastAliasHit(aliases, tm, 1) = 0 THEN <<>>
    ELSE <<aliases[LastAliasHit(aliases, tm, 1)]>>

\* Lines 174 to 179: the key of the record matched, in a sequence that is
\* empty when matched is None.
MatchedKey(canonical, aliases, tm) ==
    IF canonical \in DOMAIN tm THEN <<canonical>>
    ELSE IF FirstAliasHit(aliases, tm, 1) = 0 THEN <<>>
    ELSE <<aliases[FirstAliasHit(aliases, tm, 1)]>>

\* Lines 171 to 203: the row of one canonical action.
MatrixRow(canonical, item, tm) ==
    LET aliases == Sorted(item.aliases)
        forms_for_action == Sorted(item.forms)
        key == MatchedKey(canonical, aliases, tm)
        hit == key # <<>>
    IN  [action |-> canonical,
         aliases |-> Join(";", aliases),
         source_forms |-> Join(";", forms_for_action),
         cluster |-> classify_cluster(canonical),
         mapped_ticket |-> IF hit THEN Get(tm[key[1]], "ticket_id", "") ELSE "",
         feature_group |-> IF hit THEN Get(tm[key[1]], "feature_group", "") ELSE "",
         phase |-> IF hit THEN Get(tm[key[1]], "phase", "") ELSE "",
         status |-> IF hit THEN "mapped" ELSE "unmapped"]

build_action_matrix(fs, tm) ==
    LET by_action == Accumulate(fs, Len(fs))
        order == Sorted(DOMAIN by_action)
    IN  [i \in 1..Len(order) |-> MatrixRow(order[i], by_action[order[i]], tm)]

-----------------------------------------------------------------------------
(* infer_control_kind, infer_control_domain, build_form_schema *)

infer_control_kind(control_id) ==
    IF StartsWith(control_id, "chk") THEN "checkbox"
    ELSE IF StartsWith(control_id, "cmb") THEN "select"
    ELSE IF StartsWith(control_id, "rb") THEN "radio"
    ELSE IF StartsWith(control_id, "nb") THEN "number"
    ELSE IF StartsWith(control_id, "ed") THEN "text"
    ELSE IF StartsWith(control_id, "btn") THEN "button"
    ELSE IF StartsWith(control_id, "lbl") THEN "label"
    ELSE IF StartsWith(control_id, "gb") THEN "group"
    ELSE IF StartsWith(control_id, "tab") THEN "tab"
    ELSE IF StartsWith(control_id, "tv") THEN "tree"
    ELSE IF StartsWithAny(control_id, {"sw", "switch"}) THEN "switch"
    ELSE "other"

UpperLetters == "ABCDEFGHIJKLMNOPQRSTUVWXYZ"
LowerLetters == "abcdefghijklmnopqrstuvwxyz"

\* str.lower()
RECURSIVE Lower(_)
Lower(s) ==
    IF Len(s) = 0 THEN ""
    ELSE LET c == SubSeq(s, 1, 1)
             up == {i \in 1..Len(UpperLetters) : SubSeq(UpperLetters, i, i) = c}
         IN  (IF up = {} THEN c
              ELSE LET i == CHOOSE j \in up : TRUE IN SubSeq(LowerLetters, i, i))
                \o Lower(SubSeq(s, 2, Len(s)))

\* token in s
Contains(s, token) ==
    \E i \in 1..(Len(s) - Len(token) + 1) : SubSeq(s, i, i + Len(token) - 1) = token

ContainsAny(s, tokens) == \E t \in tokens : Contains(s, t)

infer_control_domain(control_id) ==
    LET lower == Lower(control_id)
    IN  IF ContainsAny(lower, {"stitch", "prick", "thread"}) THEN "stitching"
        ELSE IF ContainsAny(lower, {"svg", "dxf"}) THEN "export"
        ELSE IF Contains(lower, "print") \/ Contains(lower, "tile")
                    \/ Contains(lower, "dpi") THEN "print"
        ELSE IF ContainsAny(lower, {"palette", "line", "color"}) THEN "line-types"
        ELSE IF ContainsAny(lower, {"auto", "pitch", "zoom", "save", "option"})
             THEN "options"
        ELSE IF ContainsAny(lower, {"repo", "catalog", "template"}) THEN "repository"
        ELSE "general"

target_forms ==
    {"TfrmOptions", "TfrmOptions_Macintosh", "TfrmSVGExportOptions",
     "TfrmSVGExportOptions_Macintosh", "TfrmStitchingHoleSettings",
     "TfrmChangeStitchingHoleType", "TfrmEditPallet", "TfrmEditPallet_Macintosh",
     "TfrmPreview", "TfrmPreview_Macintosh", "TfrmRepository",
     "TfrmRepository_Macintosh"}

\* [form for form in forms if form.form_name in target_forms]
SelectedForms(fs) == SelectSeq(fs, LAMBDA form : form.form_name \in target_forms)

\* list.sort(key=form_name) is stable: x goes after the items whose name is
\* not greater than its own.
RECURSIVE InsertByName(_, _)
InsertByName(sorted, x) ==
    IF Len(sorted) = 0 THEN <<x>>
    ELSE IF StrLess(x.form_name, sorted[Len(sorted)].form_name)
         THEN Append(InsertByName(SubSeq(sorted, 1, Len(sorted) - 1), x),
                     sorted[Len(sorted)])
         ELSE Append(sorted, x)

RECURSIVE SortByName(_, _)
SortByName(fs, n) ==
    IF n = 0 THEN <<>> ELSE InsertByName(SortByName(fs, n - 1), fs[n])

\* dict(sorted(counts.items())) for the tally of the categories of the
\* controls: the pairs <<category, count>> in ascending order of category.
SortedCounts(categories) ==
    LET keys == Sorted({categories[i] : i \in 1..Len(categories)})
    IN  [k \in 1..Len(keys) |->
            <<keys[k],
              Cardinality({i \in 1..Len(categories) : categories[i] = keys[k]})>>]

\* Lines 238 to 259: the entry of one selected form.
FormEntry(form) ==
    [form_name |-> form.form_name,
     resource_file |-> form.resource_file,
     action_count |-> Len(form.actions),
     control_count |-> Len(form.controls),
     kind_counts |-> SortedCounts([i \in 1..Len(form.controls) |->
                                     infer_control_kind(form.controls[i])]),
     domain_counts |-> SortedCounts([i \in 1..Len(form.controls) |->
                                       infer_control_domain(form.controls[i])]),
     controls |-> [i \in 1..Len(form.controls) |->
                     [id |-> form.controls[i],
                      kind |-> infer_control_kind(form.controls[i]),
                      domain |-> infer_control_domain(form.controls[i])]]]

\* A variant that exports every form.
build_form_schema_any_form(fs) ==
    LET selected_forms == SortByName(fs, Len(fs))
    IN  [i \in 1..Len(selected_forms) |-> FormEntry(selected_forms[i])]

\* The "forms" entry of the payload.
build_form_schema(fs) ==
    LET selected_forms == SortByName(SelectedForms(fs), Len(SelectedForms(fs)))
    IN  [i \in 1..Len(selected_forms) |-> FormEntry(selected_forms[i])]

-----------------------------------------------------------------------------
(* main: the two builders applied to parsed forms and a loaded ticket map. *)

\* Number of headers, action lines and control lines of the parsed file.
MaxItems == 4

\* The sections a parse returns for a file of the given items, each a header
\* <<"form", name>>, an action line or a control line of the last header.
RECURSIVE FormsOf(_)
FormsOf(items) ==
    IF Len(items) = 0 THEN <<>>
    ELSE LET before == FormsOf(SubSeq(items, 1, Len(items) - 1))
             item == items[Len(items)]
         IN  IF item[1] = "form"
             THEN Append(before, [resource_file |-> "leat.rsrc", form_name |-> item[2],
                                  actions |-> <<>>, controls |-> <<>>])
             ELSE IF item[1] = "action"
             THEN [before EXCEPT ![Len(before)].actions = Append(@, item[2])]
             ELSE [before EXCEPT ![Len(before)].controls = Append(@, item[2])]

ParsedForms(itemSet) ==
    {FormsOf(items) : items \in {q \in SeqsUpTo(itemSet, MaxItems) :
                                    Len(q) > 0 => q[1][1] = "form"}}

\* Files of the two main forms and a schema form, with actions that share a
\* canonical name, one of another name and one that is no action.
MatrixItems ==
    {<<"form", n>> : n \in {"TfrmLeat", "TfrmLeat_Macintosh", "TfrmOptions"}}
        \cup {<<"action", a>> : a \in {"actLinePallet", "actLinePalletExecute",
                                        "actAlign", "tmrExecute"}}

\* The record the CSV holds for a key.
TicketOf(key) ==
    CASE key = "actLinePalette" ->
            [action |-> key, ticket_id |-> "T-1", feature_group |-> "LineTypes", phase |-> "1"]
      [] key = "actLinePallet" ->
            [action |-> key, ticket_id |-> "T-2", feature_group |-> "Palette", phase |-> "2"]
      [] key = "actLinePalletExecute" ->
            [action |-> key, ticket_id |-> "T-3", feature_group |-> "Handlers", phase |-> "3"]
      [] OTHER ->
            [action |-> key, ticket_id |-> "T-4", feature_group |-> "Transforms", phase |-> "4"]

\* The ticket maps with any of a canonical name and its two aliases as keys.
MatrixTicketMaps ==
    {[k \in keys |-> TicketOf(k)] :
        keys \in SUBSET {"actLinePalette", "actLinePallet", "actLinePalletExecute"}}

\* Files of a main form, two schema forms and a form of neither list, with
\* actions and controls.
SchemaItems ==
    {<<"form", n>> : n \in {"TfrmLeat", "TfrmPreview", "TfrmOptions", "TfrmAbout"}}
        \cup {<<"action", "actAlignExecute">>}
        \cup {<<"control", c>> : c \in {"chkStitchAutoSave", "btnOk"}}

SchemaTicketMaps == {[k \in {"actAlign"} |-> TicketOf(k)]}

BuildInit ==
    /\ pc = "loaded"
    /\ \/ forms \in ParsedForms(MatrixItems) /\ ticket_map \in MatrixTicketMaps
       \/ forms \in ParsedForms(SchemaItems) /\ ticket_map \in SchemaTicketMaps
    /\ action_rows = <<>>
    /\ form_schema = <<>>
    /\ ActionIdle /\ ParseIdle /\ LoadIdle

\* action_rows = build_action_matrix(forms, ticket_map)
BuildActionMatrix ==
    /\ pc = "loaded"
    /\ action_rows' = build_action_matrix(forms, ticket_map)
    /\ pc' = "matrix"
    /\ UNCHANGED <<forms, ticket_map, form_schema, actionVars, parseVars, loadVars>>

\* form_schema = build_form_schema(forms)
BuildFormSchema ==
    /\ pc = "matrix"
    /\ form_schema' = build_form_schema(forms)
    /\ pc' = "schema"
    /\ UNCHANGED <<forms, ticket_map, action_rows, actionVars, parseVars, loadVars>>

BuildNext == BuildActionMatrix \/ BuildFormSchema

SpecBuild == BuildInit /\ [][BuildNext]_vars

\* The pairs <<form name, raw action>> the two main forms of fs declare.
Declared(fs) ==
    {<<fs[i].form_name, fs[i].actions[j]>> :
        <<i, j>> \in {t \in (1..Len(fs)) \X (1..MaxItems) :
                        /\ fs[t[1]].form_name \in {"TfrmLeat", "TfrmLeat_Macintosh"}
                        /\ t[2] <= Len(fs[t[1]].actions)}}

\* The raw actions declared that canonicalize to c, and the forms declaring one.
AliasesOf(fs, c) == {d[2] : d \in {e \in Declared(fs) : canonicalize_action(e[2]) = c}}
DeclaringForms(fs, c) == {d[1] : d \in {e \in Declared(fs) : canonicalize_action(e[2]) = c}}

\* The strictly ascending enumeration of a set of strings.
Ascending(S) ==
    CHOOSE q \in [1..Cardinality(S) -> S] :
        \A i, j \in 1..Cardinality(S) : i < j => StrLess(q[i], q[j])

Built == pc \in {"matrix", "schema"}

\* The ticket fields of row r are those of the record rec.
FieldsFrom(r, rec) ==
    /\ r.mapped_ticket = rec.ticket_id
    /\ r.feature_group = rec.feature_group
    /\ r.phase = rec.phase
    /\ r.status = "mapped"

\* C1: a row whose canonical action is a key of the ticket map has that key's
\* ticket fields and status "mapped", whatever its aliases; otherwise, when an
\* alias is a key, it has the fields of the smallest such alias and status
\* "mapped"; otherwise status "unmapped" and three empty fields.
C1_Reconciliation ==
    Built =>
        \A n \in 1..Len(action_rows) :
            LET r == action_rows[n]
                hits == AliasesOf(forms, r.action) \cap DOMAIN ticket_map
            IN  IF r.action \in DOMAIN ticket_map
                THEN FieldsFrom(r, ticket_map[r.action])
                ELSE IF hits # {}
                THEN \E a \in hits :
                        /\ \A b \in hits : a = b \/ StrLess(a, b)
                        /\ FieldsFrom(r, ticket_map[a])
                ELSE /\ r.status = "unmapped"
                     /\ r.mapped_ticket = ""
                     /\ r.feature_group = ""
                     /\ r.phase = ""

\* C1 witness: the canonical name is no key, both of its aliases are, with
\* different records, and the row has the record of the smaller alias.
C1_Witness ==
    /\ Built
    /\ DOMAIN ticket_map = {"actLinePallet", "actLinePalletExecute"}
    /\ \E n \in 1..Len(action_rows) :
          /\ action_rows[n].action = "actLinePalette"
          /\ action_rows[n].aliases = "actLinePallet;actLinePalletExecute"
          /\ action_rows[n].mapped_ticket = "T-2"
          /\ action_rows[n].status = "mapped"

\* C2: the actions of the rows are the strictly ascending enumeration of the
\* canonical names, starting with "act", of the raw actions of the two main
\* forms: one row each, no other row.
C2_RowPerCanonicalAction ==
    Built =>
        LET canon == {canonicalize_action(d[2]) : d \in Declared(forms)}
            wanted == {c \in canon : StartsWith(c, "act")}
        IN  /\ Len(action_rows) = Cardinality(wanted)
            /\ {action_rows[n].action : n \in 1..Len(action_rows)} = wanted
            /\ \A n \in 1..(Len(action_rows) - 1) :
                  StrLess(action_rows[n].action, action_rows[n + 1].action)

\* C2 witness: a main form declared a misspelt action, a name that is no
\* action and then an action that sorts first; the rows are the two actions
\* in ascending order.
C2_Witness ==
    /\ Built
    /\ Len(forms) = 1
    /\ forms[1].form_name = "TfrmLeat"
    /\ forms[1].actions = <<"actLinePallet", "tmrExecute", "actAlign">>
    /\ Len(action_rows) = 2
    /\ action_rows[1].action = "actAlign"
    /\ action_rows[2].action = "actLinePalette"

\* C5: in every row, aliases is the ";"-join of the distinct raw actions of
\* the main forms that canonicalize to the row's action, ascending, and
\* source_forms the ";"-join of the distinct names of the forms that declared
\* one, ascending.
C5_SortedAliasesAndForms ==
    Built =>
        \A n \in 1..Len(action_rows) :
            LET r == action_rows[n]
            IN  /\ r.aliases = Join(";", Ascending(AliasesOf(forms, r.action)))
                /\ r.source_forms = Join(";", Ascending(DeclaringForms(forms, r.action)))

\* C5 witness: the aliases and the forms came in descending order and the
\* row lists them ascending.
C5_Witness ==
    /\ Built
    /\ Len(forms) = 2
    /\ forms[1].form_name = "TfrmLeat_Macintosh"
    /\ forms[1].actions = <<"actLinePalletExecute">>
    /\ forms[2].form_name = "TfrmLeat"
    /\ forms[2].actions = <<"actLinePallet">>
    /\ Len(action_rows) = 1
    /\ action_rows[1].aliases = "actLinePallet;actLinePalletExecute"
    /\ action_rows[1].source_forms = "TfrmLeat;TfrmLeat_Macintosh"

\* The forms of fs whose name is in one of the two allow-lists.
Listed(fs) ==
    SelectSeq(fs, LAMBDA form :
        form.form_name \in {"TfrmLeat", "TfrmLeat_Macintosh"} \cup target_forms)

\* C7: the rows and the schema's form entries are those computed from the
\* forms with every form of neither allow-list removed.
C7_UnlistedFormsIgnored ==
    /\ Built => action_rows = build_action_matrix(Listed(forms), ticket_map)
    /\ pc = "schema" => form_schema = build_form_schema(Listed(forms))

\* C7 witness: a form of neither list held an action and a control, beside a
\* listed form that gave the one entry of the artifacts.
C7_Witness ==
    /\ pc = "schema"
    /\ Len(forms) = 2
    /\ Len(Listed(forms)) = 1
    /\ \E i \in 1..2 : /\ forms[i].form_name = "TfrmAbout"
                       /\ Len(forms[i].actions) = 1
                       /\ Len(forms[i].controls) = 1
    /\ Len(action_rows) + Len(form_schema) = 1

=============================================================================
